---- MODULE Spec2Model ----
(***************************************************************************)
(* Greenlight: Policy Choice Optimizer (src/app.py).                       *)
(*                                                                         *)
(* The program is a Streamlit script: every widget change reruns it.  The  *)
(* model has one specification per part of the script:                     *)
(*   Spec        tab 0, the session table, its editor and the ranking      *)
(*   SpecScores  compute_policy_scores as a function of its arguments      *)
(*   SpecPV      pv_stream as a function of its arguments                  *)
(*   SpecRes     tab 2, the two-period depletable-resource solver          *)
(*                                                                         *)
(* Numbers.  The program computes in IEEE doubles.  The model computes in  *)
(* exact rationals [n, d] in lowest terms, with d = 0 standing for the     *)
(* missing value NaN, so an equality of the model is an equality up to    *)
(* rounding in the program.                                                *)
(***************************************************************************)
EXTENDS Integers, Sequences, FiniteSets, TLC

VARIABLES
    \* tab 0
    df,         \* st.session_state.df: the session table, a sequence of rows
    mode,       \* the "Input mode" radio
    r,          \* the "Discount rate (r)" slider
    scores,     \* the score table of the last run
    expanded,   \* the per-outcome table of the last run
    shown,      \* what the last run displayed: ranking, best, details, warning
    exc,        \* the exception that ended the last run, or NoExc
    edits,      \* number of editor changes so far
    call,       \* SpecScores: "pending" before compute_policy_scores, "returned" after
    \* pv_stream: its arguments B and r, its result, and "pending" or "returned"
    pvB, pvR, pvOut, pvPc,
    \* tab 2: the five number inputs and what the last run of the solver showed
    res

vars == <<df, mode, r, scores, expanded, shown, exc, edits, call,
          pvB, pvR, pvOut, pvPc, res>>

tab0Vars == <<df, mode, r, scores, expanded, shown, exc, edits, call>>

pvVars == <<pvB, pvR, pvOut, pvPc>>

-----------------------------------------------------------------------------
(* Rational arithmetic standing for Python/numpy float arithmetic.          *)

Abs(x) == IF x < 0 THEN -x ELSE x

RECURSIVE GCD(_, _)
GCD(x, y) == IF y = 0 THEN x ELSE GCD(y, x % y)

\* float("nan"), numpy.nan
NaN == [n |-> 0, d |-> 0]

IsNaN(x) == x.d = 0

\* n/d in lowest terms with a positive denominator (d # 0)
Norm(n, d) ==
    IF n = 0 THEN [n |-> 0, d |-> 1]
    ELSE LET g == GCD(Abs(n), Abs(d))
             s == IF d < 0 THEN -1 ELSE 1
         IN [n |-> s * (n \div g), d |-> s * (d \div g)]

Rat(n, d) == Norm(n, d)

Int2Rat(i) == [n |-> i, d |-> 1]

Zero == Int2Rat(0)

One == Int2Rat(1)

\* x + y; NaN if either is NaN
RAdd(x, y) ==
    IF IsNaN(x) \/ IsNaN(y) THEN NaN
    ELSE IF x.n = 0 THEN y
    ELSE IF y.n = 0 THEN x
    ELSE LET g == GCD(x.d, y.d)
             l == (x.d \div g) * y.d
         IN Norm(x.n * (l \div x.d) + y.n * (l \div y.d), l)

RNeg(x) == IF IsNaN(x) THEN NaN ELSE [n |-> -x.n, d |-> x.d]

\* x - y
RSub(x, y) == RAdd(x, RNeg(y))

\* x < y on numbers; every comparison with NaN is false
RLess(x, y) == ~IsNaN(x) /\ ~IsNaN(y) /\ RSub(x, y).n < 0

\* x * y; NaN if either is NaN
RMul(x, y) ==
    IF IsNaN(x) \/ IsNaN(y) THEN NaN
    ELSE IF x.n = 0 \/ y.n = 0 THEN [n |-> 0, d |-> 1]
    ELSE LET g1 == GCD(Abs(x.n), y.d)
             g2 == GCD(Abs(y.n), x.d)
         IN Norm((x.n \div g1) * (y.n \div g2), (x.d \div g2) * (y.d \div g1))

\* x / y for y # 0 (the callers decide what a zero divisor does)
RDiv(x, y) ==
    IF IsNaN(x) \/ IsNaN(y) THEN NaN
    ELSE RMul(x, Norm(y.d, y.n))

\* x ** i for an integer i >= 0; a power of a fraction in lowest terms is in
\* lowest terms
RECURSIVE RPow(_, _)
RPow(x, i) ==
    IF i = 0 THEN One
    ELSE IF IsNaN(x) THEN NaN
    ELSE LET p == RPow(x, i - 1) IN [n |-> x.n * p.n, d |-> x.d * p.d]

RAbs(x) == IF IsNaN(x) THEN NaN ELSE [n |-> Abs(x.n), d |-> x.d]

-----------------------------------------------------------------------------
(* pv_stream, lines 11-13                                                   *)

\* PvTerm with the exponent off by one: period 0 discounted once
PvTermDiscountsFirst(B, rate, k) == RDiv(B[k], RPow(RAdd(One, rate), k))

\* the generator's i-th term, B[i] / ((1 + r) ** i); B is 1-based here,
\* so B[k] is the code's B[k - 1]
PvTerm(B, rate, k) == RDiv(B[k], RPow(RAdd(One, rate), k - 1))

\* sum(...) folds the terms left to right starting from 0
RECURSIVE PvSum(_, _, _)
PvSum(B, rate, k) ==
    IF k = 0 THEN Zero ELSE RAdd(PvSum(B, rate, k - 1), PvTerm(B, rate, k))

pv_stream(B, rate) == PvSum(B, rate, Len(B))

-----------------------------------------------------------------------------
(* Cells, rows and tables                                                   *)

\* the function f with domain 1..n as a sequence value
AsSeq(f) == f \o <<>>

\* A cell of a value column as the table holds it: a number, a non-numeric
\* text such as "abc", or an empty cell (None).
Num(x) == [kind |-> "num", val |-> x]

Text == [kind |-> "text", val |-> NaN]

Blank == [kind |-> "none", val |-> NaN]

\* pd.to_numeric(column, errors="coerce"), one cell: lines 19, 23, 26
to_numeric(c) == IF c.kind = "num" THEN c.val ELSE NaN

\* an empty Policy cell (None)
PolicyNone == "<None>"

\* lines 62, 63; in lexicographic order, the order groupby sorts its keys in
PolicyNames == <<"A", "B", "C", "D">>

OutcomeNames == <<"E", "F", "G">>

\* number of policies of the default table that the model keeps
NumPolicies == 2

\* number of outcomes per policy of the default table, line 63
NumOutcomes == 3

DirectMode == "Enter PV(TNB) directly"

StreamMode == "Enter net-benefit stream (B0..B3) and compute PV using r"

Modes == {DirectMode, StreamMode}

\* one dict of the default table, line 66
BaseRow(p, o) ==
    [Policy |-> p, Outcome |-> o, Prob |-> Num(Rat(333, 1000)),
     PV_TNB |-> Num(Zero),
     B0 |-> Num(Zero), B1 |-> Num(Zero), B2 |-> Num(Zero), B3 |-> Num(Zero)]

\* the default table, lines 60-68: policies x outcomes, policy-major
DefaultDf ==
    [i \in 1..(NumPolicies * NumOutcomes) |->
        BaseRow(PolicyNames[((i - 1) \div NumOutcomes) + 1],
                OutcomeNames[((i - 1) % NumOutcomes) + 1])]

-----------------------------------------------------------------------------
(* compute_policy_scores, lines 15-37                                       *)

\* lines 18-27, one row of work
WorkRow(row, rate, m) ==
    LET b0 == to_numeric(row.B0)
        b1 == to_numeric(row.B1)
        b2 == to_numeric(row.B2)
        b3 == to_numeric(row.B3)
        pv == IF m = DirectMode THEN to_numeric(row.PV_TNB)
              ELSE pv_stream(<<b0, b1, b2, b3>>, rate)
        pr == to_numeric(row.Prob)
    IN [Policy |-> row.Policy, Outcome |-> row.Outcome,
        Prob |-> pr, PV_TNB |-> pv,
        B0 |-> IF m = DirectMode THEN row.B0 ELSE Num(b0),
        B1 |-> IF m = DirectMode THEN row.B1 ELSE Num(b1),
        B2 |-> IF m = DirectMode THEN row.B2 ELSE Num(b2),
        B3 |-> IF m = DirectMode THEN row.B3 ELSE Num(b3),
        Weighted_PV_TNB |-> RMul(pr, pv)]

\* lines 16-27: work, a copy of df with the coerced and computed columns
Work(table, rate, m) ==
    AsSeq([i \in DOMAIN table |-> WorkRow(table[i], rate, m)])

\* line 16 as work = df: the coerced and computed columns land in df itself
DfAliasesWork(table, rate, m) ==
    LET work == Work(table, rate, m)
    IN AsSeq([i \in DOMAIN table |->
                [table[i] EXCEPT !.Prob = Num(work[i].Prob),
                                 !.PV_TNB = Num(work[i].PV_TNB)]])

\* line 16: df after the call; work is a copy, so df is as it was
DfAfterCompute(table, rate, m) == table

\* groupby("Policy") keys: the distinct Policy values, missing ones dropped
\* (dropna=True), in sorted order (sort=True)
GroupKeys(work) ==
    SelectSeq(PolicyNames,
              LAMBDA p : \E i \in DOMAIN work : work[i].Policy = p)

\* GroupSum that adds up the column over every row, whatever its group
RECURSIVE GroupSumAllRows(_, _, _, _)
GroupSumAllRows(work, p, col, k) ==
    IF k = 0 THEN Zero
    ELSE LET rest == GroupSumAllRows(work, p, col, k - 1)
             v == work[k][col]
         IN IF ~IsNaN(v) THEN RAdd(rest, v) ELSE rest

\* the "sum" aggregation of column col over the group of key p: missing
\* values are skipped (skipna), an empty sum is 0
RECURSIVE GroupSum(_, _, _, _)
GroupSum(work, p, col, k) ==
    IF k = 0 THEN Zero
    ELSE LET rest == GroupSum(work, p, col, k - 1)
             v == work[k][col]
         IN IF work[k].Policy = p /\ ~IsNaN(v) THEN RAdd(rest, v) ELSE rest

\* lines 30-32: one row per group, in key order
Agg(work) ==
    LET keys == GroupKeys(work)
    IN AsSeq([j \in 1..Len(keys) |->
          [Policy |-> keys[j],
           PV_ETNB |-> GroupSum(work, keys[j], "Weighted_PV_TNB", Len(work)),
           Prob_Sum |-> GroupSum(work, keys[j], "Prob", Len(work))]])

\* sort order of sort_values("PV_ETNB", ascending=False): x may stand before y
Before(x, y) == ~RLess(x.PV_ETNB, y.PV_ETNB) /\ (IsNaN(x.PV_ETNB) => IsNaN(y.PV_ETNB))

Perms(n) == {f \in [1..n -> 1..n] : \A i, j \in 1..n : i # j => f[i] # f[j]}

\* sort_values with ascending=True
SortAscending(agg) ==
    {AsSeq([i \in 1..Len(agg) |-> agg[f[i]]]) : f \in
        {g \in Perms(Len(agg)) :
            \A i, j \in 1..Len(agg) : i < j => Before(agg[g[j]], agg[g[i]])}}

\* line 33: every order of the rows that is descending in PV_ETNB, missing
\* values last; the default sort kind is not stable, so equal scores may come
\* out in any order
sort_values(agg) ==
    {AsSeq([i \in 1..Len(agg) |-> agg[f[i]]]) : f \in
        {g \in Perms(Len(agg)) :
            \A i, j \in 1..Len(agg) : i < j => Before(agg[g[i]], agg[g[j]])}}

\* lines 34, 36: reset_index and Rank = arange(1, len + 1)
WithRank(sorted) ==
    AsSeq([i \in 1..Len(sorted) |->
        [Policy |-> sorted[i].Policy, PV_ETNB |-> sorted[i].PV_ETNB,
         Prob_Sum |-> sorted[i].Prob_Sum, Rank |-> i]])

\* the results the call can return
compute_policy_scores(table, rate, m) ==
    LET work == Work(table, rate, m)
        agg == Agg(work)
    IN {[scores |-> WithRank(s), work |-> work,
         df |-> DfAfterCompute(table, rate, m)] : s \in sort_values(agg)}

-----------------------------------------------------------------------------
(* Tab 0, lines 42-109: one run of the script's first tab                   *)

Columns == {"Policy", "Outcome", "Prob", "PV_TNB", "B0", "B1", "B2", "B3"}

\* lines 72-75
edit_cols(m) ==
    IF m = DirectMode THEN {"Policy", "Outcome", "Prob", "PV_TNB"}
    ELSE {"Policy", "Outcome", "Prob", "B0", "B1", "B2", "B3"}

\* line 80: df[edit_cols], what the editor is given
Project(table, cols) == [i \in DOMAIN table |-> [c \in cols |-> table[i][c]]]

\* lines 87-88: the edited columns are written into the session table
MergeCell(table, edited, cols, i, c) ==
    IF c \in cols THEN edited[i][c] ELSE table[i][c]

Merge(table, edited, cols) ==
    AsSeq([i \in DOMAIN table |->
        [Policy |-> MergeCell(table, edited, cols, i, "Policy"),
         Outcome |-> MergeCell(table, edited, cols, i, "Outcome"),
         Prob |-> MergeCell(table, edited, cols, i, "Prob"),
         PV_TNB |-> MergeCell(table, edited, cols, i, "PV_TNB"),
         B0 |-> MergeCell(table, edited, cols, i, "B0"),
         B1 |-> MergeCell(table, edited, cols, i, "B1"),
         B2 |-> MergeCell(table, edited, cols, i, "B2"),
         B3 |-> MergeCell(table, edited, cols, i, "B3")]])

NoExc == "none"

NoBest == "<no row>"

\* line 107 without np.abs: only sums above 1.02 count
BadNoAbs(sc) ==
    {i \in DOMAIN sc : RLess(Rat(2, 100), RSub(sc[i].Prob_Sum, One))}

\* line 107: the rows of scores with np.abs(Prob_Sum - 1.0) > 0.02
Bad(sc) ==
    {i \in DOMAIN sc : RLess(Rat(2, 100), RAbs(RSub(sc[i].Prob_Sum, One)))}

\* lines 90-109 once the edits are merged: compute, display, warn.  An empty
\* score table makes scores.iloc[0] (line 98) raise IndexError; the run ends
\* there, after the ranking table is shown and before the details and the
\* probability check.
Recompute(merged, m, rate) ==
    \E out \in compute_policy_scores(merged, rate, m) :
        /\ df' = out.df
        /\ scores' = out.scores
        /\ expanded' = out.work
        /\ IF Len(out.scores) = 0
           THEN /\ exc' = "IndexError"
                /\ shown' = [ranking |-> TRUE, best |-> NoBest,
                             details |-> FALSE, warning |-> FALSE]
           ELSE /\ exc' = NoExc
                /\ shown' = [ranking |-> TRUE, best |-> out.scores[1].Policy,
                             details |-> TRUE, warning |-> Bad(out.scores) # {}]

\* bound on the number of editor changes in one session
MaxEdits == 1

\* line 51: values of the slider (0.0 to 0.30 in steps of 0.005); 0.07 is
\* its default
Rates == {Rat(7, 100), Rat(1, 4)}

\* what the user puts in a cell: the editor's columns are typed, a number
\* cell takes a number or is emptied, the Policy cell a text or is emptied.
\* Of the stream B1 is the column edited, the first that is discounted.
CellEdits(col) ==
    IF col = "Policy" THEN {PolicyNone, PolicyNames[1]}
    ELSE IF col = "Prob" THEN {Blank}
    ELSE IF col = "PV_TNB" THEN {Num(Int2Rat(50))}
    ELSE IF col = "B1" THEN {Num(Int2Rat(10))}
    ELSE {}

\* the state after the first run of the script
Init ==
    /\ mode = DirectMode
    /\ r = Rat(7, 100)
    /\ edits = 0
    /\ \E out \in compute_policy_scores(DefaultDf, Rat(7, 100), DirectMode) :
        /\ df = out.df
        /\ scores = out.scores
        /\ expanded = out.work
        /\ exc = NoExc
        /\ shown = [ranking |-> TRUE, best |-> out.scores[1].Policy,
                    details |-> TRUE, warning |-> Bad(out.scores) # {}]
    /\ call = "idle"
    /\ pvB = <<>> /\ pvR = Zero /\ pvOut = Zero /\ pvPc = "idle"
    /\ res = [status |-> "idle"]

\* the user changes one cell of the editor (lines 79-84), and the script reruns
EditCell(i, col, v) ==
    /\ edits < MaxEdits
    /\ edits' = edits + 1
    /\ col \in edit_cols(mode)
    /\ LET edited == [Project(df, edit_cols(mode)) EXCEPT ![i][col] = v]
       IN Recompute(Merge(df, edited, edit_cols(mode)), mode, r)
    /\ UNCHANGED <<mode, r, call, pvVars, res>>

\* the user fills a whole column of the editor with one value (a paste or a
\* drag of the fill handle over the column), and the script reruns
FillColumn(col, v) ==
    /\ edits < MaxEdits
    /\ edits' = edits + 1
    /\ col \in edit_cols(mode)
    /\ LET edited == [i \in DOMAIN df |->
                        [Project(df, edit_cols(mode))[i] EXCEPT ![col] = v]]
       IN Recompute(Merge(df, edited, edit_cols(mode)), mode, r)
    /\ UNCHANGED <<mode, r, call, pvVars, res>>

\* the user picks the other input mode (line 45), and the script reruns
SetMode(m) ==
    /\ m # mode
    /\ mode' = m
    /\ Recompute(Merge(df, Project(df, edit_cols(m)), edit_cols(m)), m, r)
    /\ UNCHANGED <<r, edits, call, pvVars, res>>

\* the user moves the discount-rate slider (line 51), and the script reruns
SetRate(x) ==
    /\ x # r
    /\ r' = x
    /\ Recompute(Merge(df, Project(df, edit_cols(mode)), edit_cols(mode)), mode, x)
    /\ UNCHANGED <<mode, edits, call, pvVars, res>>

Next ==
    \/ \E i \in DOMAIN df, col \in Columns : \E v \in CellEdits(col) : EditCell(i, col, v)
    \/ \E col \in Columns : \E v \in CellEdits(col) : FillColumn(col, v)
    \/ \E m \in Modes : SetMode(m)
    \/ \E x \in Rates : SetRate(x)

Spec == Init /\ [][Next]_vars

-----------------------------------------------------------------------------
(* SpecPV: pv_stream applied to bounded arguments                           *)

\* longest benefit stream tried
MaxLen == 4

\* benefits tried
PvBenefits == {Int2Rat(0), Int2Rat(100), Int2Rat(-50)}

\* discount rates tried, all r >= 0 and on the sliders' grid
PvRates == {Zero, Rat(1, 5), Rat(1, 4)}

Streams == UNION {[1..n -> PvBenefits] : n \in 1..MaxLen}

InitPV ==
    /\ pvB \in Streams
    /\ pvR \in PvRates
    /\ pvOut = Zero
    /\ pvPc = "pending"
    /\ df = <<>> /\ mode = DirectMode /\ r = Zero /\ scores = <<>>
    /\ expanded = <<>> /\ shown = [ranking |-> FALSE] /\ exc = NoExc
    /\ edits = 0 /\ call = "idle"
    /\ res = [status |-> "idle"]

\* the call pv_stream(B, r), as at lines 24 and 120
CallPv ==
    /\ pvPc = "pending"
    /\ pvOut' = pv_stream(pvB, pvR)
    /\ pvPc' = "returned"
    /\ UNCHANGED <<pvB, pvR, tab0Vars, res>>

NextPV == CallPv

SpecPV == InitPV /\ [][NextPV]_vars

\* integer power
RECURSIVE IPow(_, _)
IPow(x, i) == IF i = 0 THEN 1 ELSE x * IPow(x, i - 1)

\* sum over k = 1..m of B[k].n * u^(n-k) * w^(k-1), with n = Len(B)
RECURSIVE Horner(_, _, _, _)
Horner(B, u, w, m) ==
    IF m = 0 THEN 0
    ELSE Horner(B, u, w, m - 1) + B[m].n * IPow(u, Len(B) - m) * IPow(w, m - 1)

RECURSIVE PlainSum(_, _)
PlainSum(B, m) == IF m = 0 THEN 0 ELSE PlainSum(B, m - 1) + B[m].n

\* C7: pv_stream(B, r) is the sum of B[i]/(1+r)^i for every stream and every
\* r >= 0.  With 1 + r = u/w and n = Len(B) - 1 the sum, multiplied by
\* (1+r)^n * w^n, is the integer sum of B[i] * u^(n-i) * w^i; so the result
\* p/q satisfies p * u^n = q * that sum.  In particular a one-period stream
\* has PV B0, an all-zero stream has PV 0, at r = 0 the PV is the plain sum,
\* and [100, 100, 100, 100] at r = 0 gives 400.
C7_PvIsDiscountedSum ==
    pvPc = "returned" =>
        LET u == pvR.d + pvR.n
            w == pvR.d
            n == Len(pvB) - 1
        IN /\ ~IsNaN(pvOut)
           /\ pvOut.n * IPow(u, n) = pvOut.d * Horner(pvB, u, w, Len(pvB))
           /\ (Len(pvB) = 1 => pvOut = pvB[1])
           /\ ((\A k \in DOMAIN pvB : pvB[k] = Zero) => pvOut = Zero)
           /\ (pvR = Zero => pvOut = Int2Rat(PlainSum(pvB, Len(pvB))))
           /\ (pvR = Zero /\ pvB = <<Int2Rat(100), Int2Rat(100), Int2Rat(100), Int2Rat(100)>>
                  => pvOut = Int2Rat(400))

\* a four-period stream of 100s was valued at r = 0
C7_Witness ==
    /\ pvPc = "returned"
    /\ pvB = <<Int2Rat(100), Int2Rat(100), Int2Rat(100), Int2Rat(100)>>
    /\ pvR = Zero
    /\ pvOut = Int2Rat(400)

-----------------------------------------------------------------------------
(* Tab 2, lines 124-151: the two-period depletable-resource solver          *)

\* line 136 with the guard b < 0: b = 0 reaches the division
BNegativeOnly(b) == RLess(b, Zero)

\* line 136: b <= 0
BNonPositive(b) == RLess(b, Zero) \/ b = Zero

\* line 139 with the divisor 2b, the undiscounted split
Q1Undiscounted(a, b, mc, r3, Q) ==
    RDiv(RAdd(RMul(r3, RSub(a, mc)), RMul(b, Q)), RMul(b, Int2Rat(2)))

\* line 139: the divisor b * (2 + r3)
Q1Divisor(b, r3) == RMul(b, RAdd(Int2Rat(2), r3))

\* line 139: q1 = (r3 * (a - mc) + b * Q) / (b * (2 + r3)), divisor not 0
Q1(a, b, mc, r3, Q) ==
    RDiv(RAdd(RMul(r3, RSub(a, mc)), RMul(b, Q)), Q1Divisor(b, r3))

\* nothing computed yet
NoSolution ==
    [q1 |-> NaN, q2 |-> NaN, P1 |-> NaN, P2 |-> NaN, lhs |-> NaN, rhs |-> NaN,
     computed |-> {}, divisors |-> {}, message |-> ""]

\* lines 136-151 for one set of inputs: what the run shows and how it ends.
\* The inputs are Python floats, so a division by 0.0 raises
\* ZeroDivisionError and the run ends at that line.
Solve(a, b, mc, r3, Q) ==
    LET in == [a |-> a, b |-> b, mc |-> mc, r |-> r3, Q |-> Q]
        q1 == Q1(a, b, mc, r3, Q)
        q2 == RSub(Q, q1)
        P1 == RSub(a, RMul(b, q1))
        P2 == RSub(a, RMul(b, q2))
        lhs == RSub(P1, mc)
        d2 == RAdd(One, r3)
        sol == [q1 |-> q1, q2 |-> q2, P1 |-> P1, P2 |-> P2, lhs |-> lhs,
                rhs |-> NaN, computed |-> {"q1", "q2", "P1", "P2", "lhs"},
                divisors |-> {Q1Divisor(b, r3), d2}, message |-> ""]
    IN IF BNonPositive(b)
       THEN in @@ [NoSolution EXCEPT !.message = "b must be > 0"]
               @@ [status |-> "error"]
       ELSE IF Q1Divisor(b, r3) = Zero
       THEN in @@ [NoSolution EXCEPT !.divisors = {Zero}]
               @@ [status |-> "ZeroDivisionError"]
       ELSE IF d2 = Zero
       THEN in @@ sol @@ [status |-> "ZeroDivisionError"]
       ELSE in @@ [sol EXCEPT !.rhs = RDiv(RSub(P2, mc), d2),
                              !.computed = @ \cup {"rhs"}]
               @@ [status |-> "ok"]

\* values the number inputs are given; the first of each is the default
\* (lines 128-132)
AVals == {Int2Rat(8), Int2Rat(10)}

BVals == {Rat(2, 5), Int2Rat(1), Zero, Int2Rat(-1)}

McVals == {Int2Rat(2), Zero}

R3Vals == {Rat(1, 10), Zero, Int2Rat(-1), Int2Rat(-2)}

QVals == {Int2Rat(20), Int2Rat(10)}

\* the state after the first run of the script: the defaults, solved
InitRes ==
    /\ res = Solve(Int2Rat(8), Rat(2, 5), Int2Rat(2), Rat(1, 10), Int2Rat(20))
    /\ pvB = <<>> /\ pvR = Zero /\ pvOut = Zero /\ pvPc = "idle"
    /\ df = <<>> /\ mode = DirectMode /\ r = Zero /\ scores = <<>>
    /\ expanded = <<>> /\ shown = [ranking |-> FALSE] /\ exc = NoExc
    /\ edits = 0 /\ call = "idle"

\* the user changes one number input, and the script reruns
SetA(v) ==
    /\ v # res.a
    /\ res' = Solve(v, res.b, res.mc, res.r, res.Q)
    /\ UNCHANGED <<tab0Vars, pvVars>>

SetB(v) ==
    /\ v # res.b
    /\ res' = Solve(res.a, v, res.mc, res.r, res.Q)
    /\ UNCHANGED <<tab0Vars, pvVars>>

SetMc(v) ==
    /\ v # res.mc
    /\ res' = Solve(res.a, res.b, v, res.r, res.Q)
    /\ UNCHANGED <<tab0Vars, pvVars>>

SetR3(v) ==
    /\ v # res.r
    /\ res' = Solve(res.a, res.b, res.mc, v, res.Q)
    /\ UNCHANGED <<tab0Vars, pvVars>>

SetQ(v) ==
    /\ v # res.Q
    /\ res' = Solve(res.a, res.b, res.mc, res.r, v)
    /\ UNCHANGED <<tab0Vars, pvVars>>

NextRes ==
    \/ \E v \in AVals : SetA(v)
    \/ \E v \in BVals : SetB(v)
    \/ \E v \in McVals : SetMc(v)
    \/ \E v \in R3Vals : SetR3(v)
    \/ \E v \in QVals : SetQ(v)

SpecRes == InitRes /\ [][NextRes]_vars

\* C3: for b > 0 and r >= 0 the solver's output satisfies q1 + q2 = Q and
\* P1 - mc = (P2 - mc)/(1 + r), with P1 = a - b*q1 and P2 = a - b*q2.
C3_SolverMeetsEfficiency ==
    (RLess(Zero, res.b) /\ ~RLess(res.r, Zero)) =>
        /\ res.status = "ok"
        /\ RAdd(res.q1, res.q2) = res.Q
        /\ res.P1 = RSub(res.a, RMul(res.b, res.q1))
        /\ res.P2 = RSub(res.a, RMul(res.b, res.q2))
        /\ res.lhs = res.rhs
        /\ RMul(RSub(res.P1, res.mc), RAdd(One, res.r)) = RSub(res.P2, res.mc)

\* the spec's example a=8, b=0.4, mc=2, r=0.10, Q=20 was solved: q1 = 215/21
C3_Witness ==
    /\ res.status = "ok"
    /\ res.a = Int2Rat(8) /\ res.b = Rat(2, 5) /\ res.mc = Int2Rat(2)
    /\ res.r = Rat(1, 10) /\ res.Q = Int2Rat(20)
    /\ res.q1 = Rat(215, 21)
    /\ res.lhs = res.rhs

\* C4: whenever b <= 0 the solver reports "b must be > 0" and computes
\* nothing: no q1, q2, P1, P2 or self-check value, and no division.
C4_NonPositiveSlopeIsReported ==
    ~RLess(Zero, res.b) =>
        /\ res.status = "error"
        /\ res.message = "b must be > 0"
        /\ res.computed = {}
        /\ res.divisors = {}

\* the solver ran with b = 0 and with a discount rate that is fine
C4_Witness ==
    /\ res.b = Zero
    /\ res.r = Rat(1, 10)
    /\ res.status = "error"

\* C5: with b > 0 the solver always computes q1, q2, P1, P2 and both
\* self-check values; its only error outcome is the b <= 0 report.
C5_NoOtherFailure ==
    RLess(Zero, res.b) =>
        /\ res.status = "ok"
        /\ res.computed = {"q1", "q2", "P1", "P2", "lhs", "rhs"}

-----------------------------------------------------------------------------
(* SpecScores: compute_policy_scores applied to bounded arguments           *)

\* most rows of an input table
MaxRows == 2

ScorePolicies == {"A", "B", PolicyNone}

\* rows of a table scored in direct mode
DirectRows ==
    {[BaseRow(p, "E") EXCEPT !.Prob = pr, !.PV_TNB = pv] :
        p \in ScorePolicies,
        pr \in {Num(Rat(1, 2)), Num(One), Text},
        pv \in {Num(Int2Rat(30)), Num(Int2Rat(50)), Blank}}

\* benefit streams B0..B3 of a row scored in stream mode
ScoreStreams ==
    {<<Num(Int2Rat(100)), Num(Int2Rat(100)), Num(Int2Rat(100)), Num(Int2Rat(100))>>,
     <<Num(Int2Rat(30)), Num(Zero), Num(Zero), Num(Zero)>>,
     <<Num(Int2Rat(10)), Text, Num(Zero), Blank>>}

\* rows of a table scored in stream mode
StreamRows ==
    {[BaseRow(p, "E") EXCEPT !.Prob = pr, !.B0 = b[1], !.B1 = b[2],
                             !.B2 = b[3], !.B3 = b[4]] :
        p \in ScorePolicies, pr \in {Num(One), Text}, b \in ScoreStreams}

Tables(rows) == UNION {[1..n -> rows] : n \in 1..MaxRows}

InitScores ==
    /\ \/ mode = DirectMode /\ r = Rat(7, 100) /\ df \in Tables(DirectRows)
       \/ mode = StreamMode /\ r \in {Zero, Rat(1, 4)} /\ df \in Tables(StreamRows)
    /\ scores = <<>>
    /\ expanded = <<>>
    /\ call = "pending"
    /\ shown = [ranking |-> FALSE] /\ exc = NoExc /\ edits = 0
    /\ pvB = <<>> /\ pvR = Zero /\ pvOut = Zero /\ pvPc = "idle"
    /\ res = [status |-> "idle"]

\* the call compute_policy_scores(df, r, mode), as at line 90
CallScores ==
    /\ call = "pending"
    /\ \E out \in compute_policy_scores(df, r, mode) :
        /\ df' = out.df
        /\ scores' = out.scores
        /\ expanded' = out.work
    /\ call' = "returned"
    /\ UNCHANGED <<mode, r, shown, exc, edits, pvVars, res>>

NextScores == CallScores

SpecScores == InitScores /\ [][NextScores]_vars

\* the sum of f[i] over the indices i in S
RECURSIVE SumOver(_, _)
SumOver(S, f) ==
    IF S = {} THEN Zero
    ELSE LET i == CHOOSE i \in S : TRUE
         IN RAdd(f[i], SumOver(S \ {i}, f))

\* a cell holds a number
IsNumber(c) == c.kind = "num" /\ ~IsNaN(c.val)

\* PV_TNB of row i of table: the entered value in direct mode, the present
\* value of B0..B3 at rate in stream mode; NaN when an entry is not a number
RowPV(table, i, rate, m) ==
    IF m = DirectMode
    THEN (IF IsNumber(table[i].PV_TNB) THEN table[i].PV_TNB.val ELSE NaN)
    ELSE IF \A c \in {"B0", "B1", "B2", "B3"} : IsNumber(table[i][c])
    THEN pv_stream(<<table[i].B0.val, table[i].B1.val,
                     table[i].B2.val, table[i].B3.val>>, rate)
    ELSE NaN

RowProb(table, i) == IF IsNumber(table[i].Prob) THEN table[i].Prob.val ELSE NaN

RowsOf(table, p) == {i \in DOMAIN table : table[i].Policy = p}

\* the policy's rows whose Prob * PV_TNB is a number
NumericRows(table, p, rate, m) ==
    {i \in RowsOf(table, p) :
        ~IsNaN(RowProb(table, i)) /\ ~IsNaN(RowPV(table, i, rate, m))}

\* sum over the policy's rows of Prob * PV_TNB, rows without a number left out
ExpectedETNB(table, p, rate, m) ==
    SumOver(NumericRows(table, p, rate, m),
            [i \in DOMAIN table |-> RMul(RowProb(table, i), RowPV(table, i, rate, m))])

\* sum over the policy's rows of Prob, rows without a number left out
ExpectedProbSum(table, p) ==
    SumOver({i \in RowsOf(table, p) : ~IsNaN(RowProb(table, i))},
            [i \in DOMAIN table |-> RowProb(table, i)])

PresentPolicies(table) == {table[i].Policy : i \in DOMAIN table} \ {PolicyNone}

C2_RanksFollowDescendingScore ==
    call = "returned" =>
        /\ Len(scores) = Cardinality(PresentPolicies(df))
        /\ {scores[j].Rank : j \in DOMAIN scores} = 1..Len(scores)
        /\ \A i, j \in DOMAIN scores :
            /\ (i # j => scores[i].Rank # scores[j].Rank)
            /\ (RLess(scores[j].PV_ETNB, scores[i].PV_ETNB)
                    => scores[i].Rank < scores[j].Rank)
            /\ (scores[i].PV_ETNB = Int2Rat(50) /\ scores[j].PV_ETNB = Int2Rat(30)
                 /\ Len(scores) = 2 => scores[i].Rank = 1)

\* policy A scored 30 and policy B 50: B, the second group, has Rank 1
C2_Witness ==
    /\ call = "returned"
    /\ Len(scores) = 2
    /\ \E i, j \in DOMAIN scores :
        /\ scores[i].Policy = "B" /\ scores[i].PV_ETNB = Int2Rat(50)
        /\ scores[i].Rank = 1
        /\ scores[j].Policy = "A" /\ scores[j].PV_ETNB = Int2Rat(30)
        /\ scores[j].Rank = 2

\* the value entries of row i that the mode reads
ReadCells(table, i, m) ==
    {table[i].Prob} \cup
    (IF m = DirectMode THEN {table[i].PV_TNB}
     ELSE {table[i].B0, table[i].B1, table[i].B2, table[i].B3})

\* C6: a non-numeric Prob, PV_TNB or B0..B3 entry does not make the call
\* raise; the row's Weighted_PV_TNB is missing, and the PV_ETNB of the row's
\* policy is missing too, not a number computed from the other rows.
C6_MissingPropagates ==
    call = "returned" =>
        \A i \in DOMAIN df :
            (\E c \in ReadCells(df, i, mode) : ~IsNumber(c)) =>
                /\ IsNaN(expanded[i].Weighted_PV_TNB)
                /\ \A j \in DOMAIN scores :
                    scores[j].Policy = df[i].Policy => IsNaN(scores[j].PV_ETNB)

-----------------------------------------------------------------------------
(* Claims about tab 0, checked under Spec                                   *)

\* |n/d - 1| > 0.02, in integers
OffByMoreThanTolerance(x) == 100 * Abs(x.n - x.d) > 2 * x.d

\* C8: the sum-to-one rule is warned, not enforced.  Every run shows the
\* ranking with a score row for every policy of the table, whatever its
\* Prob_Sum, and the warning is shown exactly when some policy has
\* |Prob_Sum - 1| > 0.02; the default table shows no warning.
C8_SumToOneIsWarnedOnly ==
    /\ shown.ranking
    /\ \A p \in PresentPolicies(df) : \E j \in DOMAIN scores : scores[j].Policy = p
    /\ shown.warning <=>
         \E j \in DOMAIN scores : OffByMoreThanTolerance(scores[j].Prob_Sum)
    /\ (df = DefaultDf => ~shown.warning)

\* a Prob cell was emptied: its policy sums to 0.666, it is still ranked with
\* every other policy, and the warning is shown
C8_Witness ==
    /\ shown.warning
    /\ exc = NoExc
    /\ Len(scores) = NumPolicies
    /\ \E j \in DOMAIN scores : scores[j].Prob_Sum = Rat(666, 1000)
    /\ \E j \in DOMAIN scores : scores[j].Prob_Sum = Rat(999, 1000)

BColumns(row) == <<row.B0, row.B1, row.B2, row.B3>>

\* C9: a run writes back to the session table only the columns editable in
\* its mode, and compute_policy_scores leaves the table alone: a run in direct
\* mode keeps B0..B3 of every row, a run in stream mode keeps the stored
\* PV_TNB of every row, and the run that switches back to direct mode scores
\* the PV_TNB values stored before it.
C9_OnlyEditableColumnsWritten ==
    [][/\ Len(df') = Len(df)
       /\ mode' = DirectMode =>
            \A i \in DOMAIN df : BColumns(df'[i]) = BColumns(df[i])
       /\ mode' = StreamMode =>
            \A i \in DOMAIN df : df'[i].PV_TNB = df[i].PV_TNB
       /\ (mode = StreamMode /\ mode' = DirectMode) =>
            \A j \in DOMAIN scores' :
                scores'[j].PV_ETNB = ExpectedETNB(df, scores'[j].Policy, r', DirectMode)
      ]_vars

\* B1 of a row was set to 10 in stream mode, where the row's PV was 10/(1+r);
\* back in direct mode the row's stored PV_TNB is still 0 and so is every score
C9_Witness ==
    /\ mode = DirectMode
    /\ \E i \in DOMAIN df : df[i].B1 = Num(Int2Rat(10)) /\ df[i].PV_TNB = Num(Zero)
    /\ Len(scores) = NumPolicies
    /\ \A j \in DOMAIN scores : scores[j].PV_ETNB = Zero

\* C10: after every run, whatever the editor produced, a recommended policy
\* is shown, and it is the Rank-1 policy, one whose PV_ETNB is greatest in
\* the score table; the score table is not empty when it is read.
C10_RecommendationAlwaysShown ==
    /\ exc = NoExc
    /\ Len(scores) > 0
    /\ shown.best = scores[1].Policy
    /\ scores[1].Rank = 1
    /\ \A j \in DOMAIN scores : ~RLess(scores[1].PV_ETNB, scores[j].PV_ETNB)

====
